---------------------------- MODULE Spec2Model ----------------------------
(***************************************************************************)
(* RUDP: a stop-and-wait reliable transfer over UDP.                       *)
(*   initiator  src/rudp_client_skeleton.py  (main, send_recv_with_retry)  *)
(*   responder  src/rudp_server_skeleton.py  (main's receive loop)         *)
(* Datagrams are sequences of bytes, produced by pack_msg and read by      *)
(* unpack_msg exactly as the two programs do.  The initiator runs at       *)
(* address "A"; addresses "B" and "C" stand for the other hosts.           *)
(***************************************************************************)
EXTENDS Integers, Sequences, FiniteSets, TLC

(* ------------------------------ bounds -------------------------------- *)
\* The programs set RETRIES = 5 and CHUNK = 200 and send a message of about
\* a thousand bytes; the model keeps the code and scales the three numbers.
RETRIES == 2
CHUNK == 2
MsgLen == 5
\* Largest sequence number in a frame sent by another host.
MaxSeq == 2
\* Chunks other hosts may add to the sink.
MaxSink == 3
\* Datagrams the transport and the socket buffer hold in one direction; one
\* sent when they are full is dropped.
MaxNet == 2
\* Datagrams the transport may deliver twice, and datagrams the counted-loss
\* transport may drop.
MaxDups == 1
MaxDrops == 2
\* Longest buffer, of arbitrary bytes, handed to unpack_msg on its own.
MaxBuf == 8

(* ----------------------------- constants ------------------------------ *)
SYN == 1
SYN_ACK == 2
ACK == 3
DATA == 4
DATA_ACK == 5
FIN == 6
FIN_ACK == 7
HDR_SZ == 7
\* The largest value of the header's 'H' field.
MaxU16 == 65535
\* Python's None where the code holds a number (a type or a sequence).
None == -1
\* Python's None where the code holds an address (client_addr).
NoAddr == "None"
\* The initiator's address, and the other hosts'.
A == "A"
Hosts == {"B", "C"}
Addr == {A} \cup Hosts

Min(a, b) == IF a < b THEN a ELSE b

(* ------------------------------- codec -------------------------------- *)
\* struct.pack('!H', n): two bytes, most significant first.
U16(n) == << (n \div 256) % 256, n % 256 >>

\* U32 with the least significant byte first ('<I').
U32_LittleEndian(n) == << n % 256, (n \div 256) % 256,
                          (n \div 65536) % 256, (n \div 16777216) % 256 >>

\* struct.pack('!I', n): four bytes, most significant first.
U32(n) == << (n \div 16777216) % 256, (n \div 65536) % 256,
             (n \div 256) % 256, n % 256 >>

pack_msg(tp, seq, payload) == <<tp>> \o U32(seq) \o U16(Len(payload)) \o payload

\* unpack_msg that reads the type of a datagram too short for a header.
unpack_msg_Partial(pkt) ==
    IF Len(pkt) = 0
    THEN [tp |-> None, seq |-> None, pl |-> <<>>]
    ELSE IF Len(pkt) < HDR_SZ
    THEN [tp |-> pkt[1], seq |-> 0, pl |-> <<>>]
    ELSE LET ln == pkt[6] * 256 + pkt[7]
         IN [tp  |-> pkt[1],
             seq |-> ((pkt[2] * 256 + pkt[3]) * 256 + pkt[4]) * 256 + pkt[5],
             pl  |-> SubSeq(pkt, HDR_SZ + 1, Min(HDR_SZ + ln, Len(pkt)))]

unpack_msg(pkt) ==
    IF Len(pkt) < HDR_SZ
    THEN [tp |-> None, seq |-> None, pl |-> <<>>]
    ELSE LET ln == pkt[6] * 256 + pkt[7]
         IN [tp  |-> pkt[1],
             seq |-> ((pkt[2] * 256 + pkt[3]) * 256 + pkt[4]) * 256 + pkt[5],
             pl  |-> SubSeq(pkt, HDR_SZ + 1, Min(HDR_SZ + ln, Len(pkt)))]

(* ------------------------------ state --------------------------------- *)
VARIABLES
    client_addr,   \* responder: the bound peer, or NoAddr
    established,   \* responder: handshake complete
    expect_seq,    \* responder: next in-order DATA sequence
    sink,          \* responder: what it has delivered (printed), in order
    out,           \* responder: what its last loop iteration sent to the other hosts
    conn_base,     \* history: Len(sink) when the current connection was established
    srv_rx,        \* history: sender and type of the datagram the responder got last
    data,          \* initiator: the bytes main() sends (MESSAGE.encode())
    chunk_size,    \* initiator: the chunk size (CHUNK)
    cli_pc,        \* initiator: where main() is
    attempt,       \* initiator: iterations of the retry loop begun in this call
    seq,           \* initiator: main's seq
    off,           \* initiator: main's off
    ntx,           \* history: transmissions of the current step's frame
    last_data,     \* history: sequence of the DATA frame the initiator sent last
    acked,         \* history: sequences of the DATA_ACK frames it received
    cli_rx,        \* history: how the initiator's last recvfrom ended
    cli_tx,        \* history: the frames the initiator's last step transmitted
    nframes,       \* history: how many frames the initiator has transmitted, in
                   \* the runs that count them (None in the others)
    c2s,           \* transport: datagrams from A on their way to the responder
    s2c,           \* transport and socket buffer: datagrams on their way to A
    dups,          \* transport: datagrams delivered and kept for a second delivery
    drops,         \* transport: datagrams dropped in each direction (counted loss)
    codec          \* a use of pack_msg and unpack_msg on its own

srv == <<client_addr, established, expect_seq, sink, out, conn_base, srv_rx>>
cli == <<cli_pc, attempt, seq, off, ntx, last_data, acked, cli_rx, cli_tx, nframes>>
net == <<c2s, s2c, dups, drops>>
vars == <<srv, cli, net, data, chunk_size, codec>>

(* ----------------------------- responder ------------------------------ *)
SrvState == [client_addr |-> client_addr, established |-> established,
             expect_seq |-> expect_seq, sink |-> sink, out |-> <<>>]

\* `continue` with nothing done.
Ignored(st) == st

\* Handshake that answers the bound peer's repeated SYN with SYN_ACK again.
Handshake_ReSynAck(st, addr, m) ==
    IF m.tp = SYN /\ st.client_addr \in {NoAddr, addr}
    THEN [st EXCEPT !.client_addr = addr,
                    !.out = << [to |-> addr, pkt |-> pack_msg(SYN_ACK, 0, <<>>)] >>]
    ELSE IF m.tp = ACK /\ st.client_addr = addr
    THEN [st EXCEPT !.established = TRUE, !.expect_seq = 0]
    ELSE Ignored(st)

\* Handshake that takes the ACK of any sender.
Handshake_AnyAck(st, addr, m) ==
    IF m.tp = SYN /\ st.client_addr = NoAddr
    THEN [st EXCEPT !.client_addr = addr,
                    !.out = << [to |-> addr, pkt |-> pack_msg(SYN_ACK, 0, <<>>)] >>]
    ELSE IF m.tp = ACK
    THEN [st EXCEPT !.established = TRUE, !.expect_seq = 0]
    ELSE Ignored(st)

\* lines 51-65: the handshake phase.
Handshake(st, addr, m) ==
    IF m.tp = SYN /\ st.client_addr = NoAddr
    THEN [st EXCEPT !.client_addr = addr,
                    !.out = << [to |-> addr, pkt |-> pack_msg(SYN_ACK, 0, <<>>)] >>]
    ELSE IF m.tp = ACK /\ st.client_addr = addr
    THEN [st EXCEPT !.established = TRUE, !.expect_seq = 0]
    ELSE Ignored(st)

\* OnData with a duplicate taken for new: any sequence up to expect_seq is
\* delivered again.
OnData_Redeliver(st, m) ==
    IF m.seq <= st.expect_seq
    THEN [st EXCEPT !.sink = Append(@, [seq |-> m.seq, pl |-> m.pl]),
                    !.out = << [to |-> st.client_addr,
                                pkt |-> pack_msg(DATA_ACK, m.seq, <<>>)] >>,
                    !.expect_seq = @ + 1]
    ELSE LET last_in_order == IF st.expect_seq > 0 THEN st.expect_seq - 1 ELSE 0
         IN [st EXCEPT !.out = << [to |-> st.client_addr,
                                   pkt |-> pack_msg(DATA_ACK, last_in_order, <<>>)] >>]

\* OnData with the re-acknowledgement off by one: expect_seq, not expect_seq - 1.
OnData_ReackNext(st, m) ==
    IF m.seq = st.expect_seq
    THEN [st EXCEPT !.sink = Append(@, [seq |-> m.seq, pl |-> m.pl]),
                    !.out = << [to |-> st.client_addr,
                                pkt |-> pack_msg(DATA_ACK, m.seq, <<>>)] >>,
                    !.expect_seq = @ + 1]
    ELSE [st EXCEPT !.out = << [to |-> st.client_addr,
                                pkt |-> pack_msg(DATA_ACK, st.expect_seq, <<>>)] >>]

\* OnData that acknowledges the expected chunk without delivering it.
OnData_AckUndelivered(st, m) ==
    IF m.seq = st.expect_seq
    THEN [st EXCEPT !.out = << [to |-> st.client_addr,
                                pkt |-> pack_msg(DATA_ACK, m.seq, <<>>)] >>,
                    !.expect_seq = @ + 1]
    ELSE LET last_in_order == IF st.expect_seq > 0 THEN st.expect_seq - 1 ELSE 0
         IN [st EXCEPT !.out = << [to |-> st.client_addr,
                                   pkt |-> pack_msg(DATA_ACK, last_in_order, <<>>)] >>]

\* OnData that re-acknowledges expect_seq - 1 even when expect_seq is 0.
OnData_NoFloor(st, m) ==
    IF m.seq = st.expect_seq
    THEN [st EXCEPT !.sink = Append(@, [seq |-> m.seq, pl |-> m.pl]),
                    !.out = << [to |-> st.client_addr,
                                pkt |-> pack_msg(DATA_ACK, m.seq, <<>>)] >>,
                    !.expect_seq = @ + 1]
    ELSE [st EXCEPT !.out = << [to |-> st.client_addr,
                                pkt |-> pack_msg(DATA_ACK, st.expect_seq - 1, <<>>)] >>]

\* lines 74-92: a DATA frame from the bound peer.
OnData(st, m) ==
    IF m.seq = st.expect_seq
    THEN [st EXCEPT !.sink = Append(@, [seq |-> m.seq, pl |-> m.pl]),
                    !.out = << [to |-> st.client_addr,
                                pkt |-> pack_msg(DATA_ACK, m.seq, <<>>)] >>,
                    !.expect_seq = @ + 1]
    ELSE LET last_in_order == IF st.expect_seq > 0 THEN st.expect_seq - 1 ELSE 0
         IN [st EXCEPT !.out = << [to |-> st.client_addr,
                                   pkt |-> pack_msg(DATA_ACK, last_in_order, <<>>)] >>]

\* OnFin that forgets to leave the ESTABLISHED phase.
OnFin_KeepEstablished(st) ==
    [st EXCEPT !.out = << [to |-> st.client_addr, pkt |-> pack_msg(FIN_ACK, 0, <<>>)] >>,
               !.client_addr = NoAddr,
               !.expect_seq = 0]

\* OnFin that forgets to reset expect_seq.
OnFin_KeepSeq(st) ==
    [st EXCEPT !.out = << [to |-> st.client_addr, pkt |-> pack_msg(FIN_ACK, 0, <<>>)] >>,
               !.established = FALSE,
               !.client_addr = NoAddr]

\* OnFin that forgets to clear client_addr.
OnFin_KeepPeer(st) ==
    [st EXCEPT !.out = << [to |-> st.client_addr, pkt |-> pack_msg(FIN_ACK, 0, <<>>)] >>,
               !.established = FALSE,
               !.expect_seq = 0]

\* lines 96-104: a FIN from the bound peer.
OnFin(st) ==
    [st EXCEPT !.out = << [to |-> st.client_addr, pkt |-> pack_msg(FIN_ACK, 0, <<>>)] >>,
               !.established = FALSE,
               !.client_addr = NoAddr,
               !.expect_seq = 0]

\* Handler without the sender check of line 69.
Handler_NoFilter(st, addr, pkt) ==
    LET m == unpack_msg(pkt) IN
    IF m.tp = None THEN Ignored(st)
    ELSE IF ~st.established THEN Handshake(st, addr, m)
    ELSE IF m.tp = DATA THEN OnData(st, m)
    ELSE IF m.tp = FIN THEN OnFin(st)
    ELSE Ignored(st)

\* lines 45-107: one iteration of the receive loop on datagram pkt from addr.
Handler(st, addr, pkt) ==
    LET m == unpack_msg(pkt) IN
    IF m.tp = None THEN Ignored(st)
    ELSE IF ~st.established THEN Handshake(st, addr, m)
    ELSE IF st.client_addr # NoAddr /\ addr # st.client_addr THEN Ignored(st)
    ELSE IF m.tp = DATA THEN OnData(st, m)
    ELSE IF m.tp = FIN THEN OnFin(st)
    ELSE Ignored(st)

\* The datagrams of a send list addressed to A, and the rest of the list.
ToA(o) == LET l == SelectSeq(o, LAMBDA d : d.to = A) IN [i \in 1..Len(l) |-> l[i].pkt]
ToHosts(o) == SelectSeq(o, LAMBDA d : d.to # A)

\* sendto: the datagrams join those on their way, as far as there is room.
Send(ch, pkts) == SubSeq(ch \o pkts, 1, Min(Len(ch) + Len(pkts), MaxNet))

Remove(s, i) == SubSeq(s, 1, i - 1) \o SubSeq(s, i + 1, Len(s))

\* The responder's variables after one loop iteration.
Serve(addr, pkt) ==
    LET r == Handler(SrvState, addr, pkt) IN
    /\ client_addr' = r.client_addr
    /\ established' = r.established
    /\ expect_seq' = r.expect_seq
    /\ sink' = r.sink
    /\ out' = ToHosts(r.out)
    /\ s2c' = Send(s2c, ToA(r.out))
    /\ conn_base' = IF ~established /\ r.established THEN Len(sink) ELSE conn_base
    /\ srv_rx' = [from |-> addr, tp |-> unpack_msg(pkt).tp]

(* ----------------------------- initiator ------------------------------ *)
\* The first MsgLen bytes of MESSAGE ('Hello fr...').
MESSAGE == SubSeq(<<72, 101, 108, 108, 111, 32, 102, 114, 111, 109>>, 1, MsgLen)

\* data[off:off+CHUNK]
Chunk(o) == SubSeq(data, o + 1, Min(o + chunk_size, Len(data)))

CliState == [cli_pc |-> cli_pc, attempt |-> attempt, seq |-> seq, off |-> off,
             tx |-> <<>>]

\* The frame, the acceptable types and the expected sequence of the call of
\* send_recv_with_retry main() is in.
CurPkt(c) ==
    CASE c.cli_pc = "HANDSHAKING"  -> pack_msg(SYN, 0, <<>>)
      [] c.cli_pc = "TRANSFERRING" -> pack_msg(DATA, c.seq, Chunk(c.off))
      [] c.cli_pc = "CLOSING"      -> pack_msg(FIN, 0, <<>>)
ExpectTypes(c) ==
    CASE c.cli_pc = "HANDSHAKING"  -> {SYN_ACK}
      [] c.cli_pc = "TRANSFERRING" -> {DATA_ACK}
      [] c.cli_pc = "CLOSING"      -> {FIN_ACK}
ExpectSeq(c) == IF c.cli_pc = "TRANSFERRING" THEN c.seq ELSE None

\* Matches without the sequence test.
Matches_AnySeq(resp, expect_types, expect_seq_) ==
    unpack_msg(resp).tp \in expect_types

\* line 69
Matches(resp, expect_types, expect_seq_) ==
    LET m == unpack_msg(resp)
    IN m.tp \in expect_types /\ (expect_seq_ = None \/ m.seq = expect_seq_)

\* NextAttempt with one iteration too many.
NextAttempt_OneMore(c) ==
    IF c.attempt <= RETRIES
    THEN [c EXCEPT !.attempt = @ + 1, !.tx = Append(@, CurPkt(c))]
    ELSE [c EXCEPT !.cli_pc = "FAILED"]

\* NextAttempt that sends a FIN when it gives up.
NextAttempt_FinOnFail(c) ==
    IF c.attempt < RETRIES
    THEN [c EXCEPT !.attempt = @ + 1, !.tx = Append(@, CurPkt(c))]
    ELSE [c EXCEPT !.cli_pc = "FAILED", !.tx = Append(@, pack_msg(FIN, 0, <<>>))]

\* lines 63-65: the next iteration of the retry loop, or line 74 and the
\* caller's failure branch when the loop is over.
NextAttempt(c) ==
    IF c.attempt < RETRIES
    THEN [c EXCEPT !.attempt = @ + 1, !.tx = Append(@, CurPkt(c))]
    ELSE [c EXCEPT !.cli_pc = "FAILED"]

\* A call of send_recv_with_retry begins: its first transmission.
Call(c) == [c EXCEPT !.attempt = 1, !.tx = Append(@, CurPkt(c))]

\* NextChunk with the end of the range included: range(0, len(data) + 1, CHUNK).
NextChunk_Inclusive(c) ==
    IF c.off <= Len(data)
    THEN Call([c EXCEPT !.cli_pc = "TRANSFERRING"])
    ELSE Call([c EXCEPT !.cli_pc = "CLOSING"])

\* lines 93-111: the step of main() that follows an acknowledged chunk (or
\* the handshake): the next chunk if there is one, else the FIN.
NextChunk(c) ==
    IF c.off < Len(data)
    THEN Call([c EXCEPT !.cli_pc = "TRANSFERRING"])
    ELSE Call([c EXCEPT !.cli_pc = "CLOSING"])

\* main() after send_recv_with_retry returned a match.
Advance(c) ==
    CASE c.cli_pc = "HANDSHAKING" ->
            NextChunk([c EXCEPT !.tx = Append(@, pack_msg(ACK, 0, <<>>)),
                                !.seq = 0, !.off = 0])
      [] c.cli_pc = "TRANSFERRING" ->
            NextChunk([c EXCEPT !.seq = @ + 1, !.off = @ + chunk_size])
      [] c.cli_pc = "CLOSING" -> [c EXCEPT !.cli_pc = "CLOSED"]

\* OnResponse that goes back to recvfrom on a response that does not match.
OnResponse_KeepWaiting(c, resp) ==
    IF Matches(resp, ExpectTypes(c), ExpectSeq(c)) THEN Advance(c) ELSE c

\* lines 67-70: recvfrom returned resp.
OnResponse(c, resp) ==
    IF Matches(resp, ExpectTypes(c), ExpectSeq(c)) THEN Advance(c) ELSE NextAttempt(c)

\* OnTimeout that begins the call anew.
OnTimeout_Restart(c) == Call(c)

\* lines 71-73: recvfrom timed out.
OnTimeout(c) == NextAttempt(c)

Waiting == cli_pc \in {"HANDSHAKING", "TRANSFERRING", "CLOSING"}

\* The DATA frames of a send list.
DataSent(tx) == SelectSeq(tx, LAMBDA p : unpack_msg(p).tp = DATA)

\* The initiator's variables after a step that took it from c to r, its
\* recvfrom having ended as rx.
Client(c, r, rx) ==
    /\ cli_rx' = rx
    /\ cli_pc' = r.cli_pc
    /\ attempt' = r.attempt
    /\ seq' = r.seq
    /\ off' = r.off
    /\ c2s' = Send(c2s, r.tx)
    /\ ntx' = IF r.cli_pc \in {"CLOSED", "FAILED"} THEN ntx
              ELSE IF r.cli_pc = c.cli_pc /\ r.seq = c.seq THEN ntx + Len(r.tx)
              ELSE Len(SelectSeq(r.tx, LAMBDA p : p = CurPkt(r)))
    /\ last_data' = IF DataSent(r.tx) = <<>> THEN last_data
                    ELSE unpack_msg(DataSent(r.tx)[Len(DataSent(r.tx))]).seq
    /\ cli_tx' = r.tx
    /\ nframes' = IF nframes = None THEN None ELSE nframes + Len(r.tx)

(* ----------------------------- actions -------------------------------- *)
\* What unpack_msg returns for a datagram too short (line 31).
Failure == [tp |-> None, seq |-> None, pl |-> <<>>]

\* pack_msg and unpack_msg not in use.
NoCodec == [pc |-> "idle", arg |-> Failure, buf |-> <<>>, dec |-> Failure]

\* The state in which both programs start, the initiator having d to send in
\* chunks of c bytes; n starts the count of its frames.
Fresh(d, c, n) ==
    /\ client_addr = NoAddr /\ established = FALSE /\ expect_seq = 0
    /\ sink = <<>> /\ out = <<>> /\ conn_base = 0
    /\ srv_rx = [from |-> NoAddr, tp |-> None]
    /\ cli_pc = "INIT" /\ attempt = 0 /\ seq = 0 /\ off = 0
    /\ ntx = 0 /\ last_data = None /\ acked = {}
    /\ cli_rx = [ev |-> "none", tp |-> None]
    /\ c2s = <<>> /\ s2c = <<>> /\ dups = 0 /\ drops = [c2s |-> 0, s2c |-> 0]
    /\ cli_tx = <<>> /\ nframes = n
    /\ data = d /\ chunk_size = c

Init == Fresh(MESSAGE, CHUNK, None) /\ codec = NoCodec

\* The same with any message of up to MsgLen bytes, the empty one included,
\* and any chunk size up to CHUNK, the initiator's frames being counted.
InitAny ==
    /\ \E n \in 0..MsgLen, c \in 1..CHUNK : Fresh(SubSeq(MESSAGE, 1, n), c, 0)
    /\ codec = NoCodec

\* main() starts: the first SYN.
ClientStart ==
    /\ cli_pc = "INIT"
    /\ Client(CliState, Call([CliState EXCEPT !.cli_pc = "HANDSHAKING"]), cli_rx)
    /\ UNCHANGED <<data, chunk_size, codec, srv, s2c, dups, drops, acked>>

AckSeqs(resp) ==
    LET m == unpack_msg(resp) IN IF m.tp = DATA_ACK THEN {m.seq} ELSE {}

Received(resp) == [ev |-> "recv", tp |-> unpack_msg(resp).tp]

\* recvfrom returns the i-th datagram on its way to A; the transport keeps a
\* copy when keep.
ClientRecv(i, keep) ==
    /\ Waiting
    /\ i \in 1..Len(s2c)
    /\ keep => dups < MaxDups
    /\ Client(CliState, OnResponse(CliState, s2c[i]), Received(s2c[i]))
    /\ acked' = acked \cup AckSeqs(s2c[i])
    /\ s2c' = IF keep THEN s2c ELSE Remove(s2c, i)
    /\ dups' = IF keep THEN dups + 1 ELSE dups
    /\ UNCHANGED <<data, chunk_size, codec, srv, drops>>

\* Datagrams shorter than a header: empty, 3 bytes, 6 bytes.
Malformed == { <<>>, <<SYN, 0, 0>>, <<DATA_ACK, 0, 0, 0, 0, 0>> }

\* recvfrom returns a datagram shorter than a header, from anywhere.
ClientRecvNoise(pkt) ==
    /\ Waiting
    /\ Client(CliState, OnResponse(CliState, pkt), Received(pkt))
    /\ UNCHANGED <<data, chunk_size, codec, srv, s2c, dups, drops, acked>>

\* recvfrom times out.
ClientTimeout ==
    /\ Waiting
    /\ Client(CliState, OnTimeout(CliState), [ev |-> "timeout", tp |-> None])
    /\ UNCHANGED <<data, chunk_size, codec, srv, s2c, dups, drops, acked>>

\* recvfrom times out because nothing is on its way in either direction.
ClientTimeoutQuiet ==
    /\ c2s = <<>> /\ s2c = <<>>
    /\ ClientTimeout

\* The responder receives the i-th datagram on its way from A; the transport
\* keeps a copy when keep.  Its replies to A join the datagrams on their way.
ServerRecv(i, keep) ==
    /\ i \in 1..Len(c2s)
    /\ keep => dups < MaxDups
    /\ Serve(A, c2s[i])
    /\ c2s' = IF keep THEN c2s ELSE Remove(c2s, i)
    /\ dups' = IF keep THEN dups + 1 ELSE dups
    /\ UNCHANGED <<data, chunk_size, codec, cli, drops>>

\* The responder receives a datagram shorter than a header, from anywhere.
ServerRecvNoise(addr, pkt) ==
    /\ Serve(addr, pkt)
    /\ UNCHANGED <<data, chunk_size, codec, cli, c2s, dups, drops>>

\* The frames other hosts send: of each type, and all of them.
FramesOfType(tp) ==
    IF tp = DATA THEN { pack_msg(DATA, s, pl) : s \in 0..MaxSeq, pl \in {<<>>, <<33>>} }
    ELSE { pack_msg(tp, s, <<>>) : s \in {0, 1} }
EnvFrames == UNION { FramesOfType(tp) : tp \in SYN..FIN_ACK }

\* The responder receives a frame of another host.
ServerRecvEnv(addr, pkt) ==
    /\ Len(Handler(SrvState, addr, pkt).sink) <= MaxSink
    /\ Serve(addr, pkt)
    /\ UNCHANGED <<data, chunk_size, codec, cli, c2s, dups, drops>>

\* The transport drops a datagram.
LoseC2S(i) ==
    /\ i \in 1..Len(c2s)
    /\ c2s' = Remove(c2s, i)
    /\ UNCHANGED <<data, chunk_size, codec, srv, cli, s2c, dups, drops>>

LoseS2C(i) ==
    /\ i \in 1..Len(s2c)
    /\ s2c' = Remove(s2c, i)
    /\ UNCHANGED <<data, chunk_size, codec, srv, cli, c2s, dups, drops>>

\* The transport drops a datagram and the drop is counted.
Drops == drops.c2s + drops.s2c

DropC2S(i) ==
    /\ Drops < MaxDrops
    /\ i \in 1..Len(c2s)
    /\ c2s' = Remove(c2s, i)
    /\ drops' = [drops EXCEPT !.c2s = @ + 1]
    /\ UNCHANGED <<data, chunk_size, codec, srv, cli, s2c, dups>>

DropS2C(i) ==
    /\ Drops < MaxDrops
    /\ i \in 1..Len(s2c)
    /\ s2c' = Remove(s2c, i)
    /\ drops' = [drops EXCEPT !.s2c = @ + 1]
    /\ UNCHANGED <<data, chunk_size, codec, srv, cli, c2s, dups>>

\* One run of the initiator against the responder over a transport that
\* loses, duplicates and reorders datagrams, with timeouts at any moment and
\* malformed datagrams arriving at both.
Next ==
    \/ ClientStart
    \/ \E i \in 1..Len(s2c), keep \in BOOLEAN : ClientRecv(i, keep)
    \/ \E pkt \in Malformed : ClientRecvNoise(pkt)
    \/ ClientTimeout
    \/ \E i \in 1..Len(c2s), keep \in BOOLEAN : ServerRecv(i, keep)
    \/ \E a \in Addr, pkt \in Malformed : ServerRecvNoise(a, pkt)
    \/ \E i \in 1..Len(c2s) : LoseC2S(i)
    \/ \E i \in 1..Len(s2c) : LoseS2C(i)

Spec == Init /\ [][Next]_vars

\* One run of the initiator against the responder over a transport that
\* keeps the order, never duplicates and drops at most MaxDrops datagrams;
\* a wait times out only when no datagram is on its way.
NextLossy ==
    \/ ClientStart
    \/ ClientRecv(1, FALSE)
    \/ ClientTimeoutQuiet
    \/ ServerRecv(1, FALSE)
    \/ \E i \in 1..Len(c2s) : DropC2S(i)
    \/ \E i \in 1..Len(s2c) : DropS2C(i)

SpecLossy == Init /\ [][NextLossy]_vars

\* One run of the initiator against the responder over a transport that
\* keeps the order and never duplicates, but drops any datagrams; a wait may
\* time out at any moment.
NextFifo ==
    \/ ClientStart
    \/ ClientRecv(1, FALSE)
    \/ ClientTimeout
    \/ ServerRecv(1, FALSE)
    \/ \E i \in 1..Len(c2s) : LoseC2S(i)
    \/ \E i \in 1..Len(s2c) : LoseS2C(i)

SpecFifo == Init /\ [][NextFifo]_vars

\* One run of the initiator against the responder over a transport that
\* delivers every datagram, once and in order; no wait times out.
NextReliable ==
    \/ ClientStart
    \/ ClientRecv(1, FALSE)
    \/ ServerRecv(1, FALSE)

SpecReliable == InitAny /\ [][NextReliable]_vars

\* The frames anyone may send the initiator: of every type, and DATA_ACK
\* with the sequence it waits for, the one before and the one after.
Responses ==
    { pack_msg(tp, 0, <<>>) : tp \in SYN..FIN_ACK }
    \cup { pack_msg(DATA_ACK, s, <<>>) : s \in {seq - 1, seq, seq + 1} \ {-1} }

\* recvfrom returns a frame, sent by whoever.
ClientRecvAny(pkt) ==
    /\ Waiting
    /\ Client(CliState, OnResponse(CliState, pkt), Received(pkt))
    /\ acked' = acked \cup AckSeqs(pkt)
    /\ UNCHANGED <<data, chunk_size, codec, srv, s2c, dups, drops>>

\* The initiator alone, with any message and chunk size: each of its waits
\* ends, with any frame, a malformed datagram or a timeout (recvfrom under
\* settimeout returns or raises).
NextInitiator ==
    \/ ClientStart
    \/ \E pkt \in Responses : ClientRecvAny(pkt)
    \/ \E pkt \in Malformed : ClientRecvNoise(pkt)
    \/ ClientTimeout

SpecInitiator == InitAny /\ [][NextInitiator]_vars /\ WF_vars(NextInitiator)

\* The arguments pack_msg is called with: every type, sequences at the byte
\* boundaries of the 'I' field (up to 2^31 - 1, the largest number TLC
\* computes with), payloads at those of the 'H' field.
Payloads == { <<>>, <<0>>, <<255>>, <<1, 2>>,
              [i \in 1..256 |-> i % 256], [i \in 1..MaxU16 |-> 7] }
Args == [tp : SYN..FIN_ACK,
         seq : {0, 1, 255, 256, 65535, 65536, 16777216, 2147483647},
         pl : Payloads]

\* The buffers unpack_msg is given: any bytes, up to MaxBuf of them.
Bytes == {0, 1, DATA}
RECURSIVE Buffers(_)
Buffers(n) ==
    IF n = 0 THEN { <<>> }
    ELSE LET s == Buffers(n - 1)
         IN s \cup { Append(b, x) : b \in { t \in s : Len(t) = n - 1 }, x \in Bytes }

\* pack_msg or unpack_msg is about to be called.
InitCodec ==
    /\ Fresh(MESSAGE, CHUNK, None)
    /\ codec \in { [NoCodec EXCEPT !.pc = "arg", !.arg = a] : a \in Args }
              \cup { [NoCodec EXCEPT !.pc = "buf", !.buf = b] : b \in Buffers(MaxBuf) }

\* pack_msg(tp, seq, payload) is called.
Pack ==
    /\ codec.pc = "arg"
    /\ codec' = [codec EXCEPT !.pc = "packed",
                              !.buf = pack_msg(codec.arg.tp, codec.arg.seq, codec.arg.pl)]
    /\ UNCHANGED <<srv, cli, net, data, chunk_size>>

\* unpack_msg(pkt) is called, on what pack_msg returned or on a buffer.
Unpack ==
    /\ codec.pc \in {"packed", "buf"}
    /\ codec' = [codec EXCEPT !.pc = IF codec.pc = "packed" THEN "roundtrip" ELSE "unpacked",
                              !.dec = unpack_msg(codec.buf)]
    /\ UNCHANGED <<srv, cli, net, data, chunk_size>>

NextCodec == Pack \/ Unpack

SpecCodec == InitCodec /\ [][NextCodec]_vars

\* The responder alone, receiving any frames from the other hosts.
NextResponder ==
    \/ \E a \in Hosts, pkt \in EnvFrames : ServerRecvEnv(a, pkt)
    \/ \E a \in Hosts, pkt \in Malformed : ServerRecvNoise(a, pkt)

SpecResponder == Init /\ [][NextResponder]_vars

(* ------------------------------ claims -------------------------------- *)
\* What the current connection has delivered, and the sequences in it.
Delivered == SubSeq(sink, conn_base + 1, Len(sink))
DeliveredSeqs == [i \in 1..Len(Delivered) |-> Delivered[i].seq]

DataAck(a, s) == << [to |-> a, pkt |-> pack_msg(DATA_ACK, s, <<>>)] >>

\* The responder receives pkt from a (a step of either kind).
Recv(a, pkt) ==
    /\ srv_rx' = [from |-> a, tp |-> unpack_msg(pkt).tp]
    /\ ServerRecvEnv(a, pkt) \/ ServerRecvNoise(a, pkt)

\* P(a, pkt) holds of the step for every datagram pkt from a host a whose
\* receipt by the responder the step is.  (srv_rx' gives the sender and the
\* type, which leaves the datagrams of that type to try.)
ForRecv(P(_, _)) ==
    LET tp == srv_rx'.tp
    IN \A pkt \in (IF tp = None THEN Malformed ELSE FramesOfType(tp)) :
          Recv(srv_rx'.from, pkt) => P(srv_rx'.from, pkt)

\* C1, one frame: pkt from a is delivered exactly when it is the expected DATA
\* of the bound peer; any other DATA of the bound peer is answered with a
\* DATA_ACK and changes neither the sink nor expect_seq.
C1_Frame(a, pkt) ==
    LET m == unpack_msg(pkt)
        mine == established /\ a = client_addr /\ m.tp = DATA
    IN    IF mine /\ m.seq = expect_seq
          THEN /\ sink' = Append(sink, [seq |-> m.seq, pl |-> m.pl])
               /\ expect_seq' = expect_seq + 1
               /\ out' = DataAck(a, m.seq)
          ELSE /\ sink' = sink
               /\ mine => /\ expect_seq' = expect_seq
                          /\ \E s \in 0..expect_seq : out' = DataAck(a, s)

\* C1: at-most-once, in-order delivery.  Within one connection the sequences
\* delivered to the sink are exactly 0, 1, 2, ... up to expect_seq - 1, each
\* once and in that order, whatever DATA frames arrive; a DATA frame whose
\* sequence is not expect_seq is acknowledged and never delivered.
C1_AtMostOnceInOrder ==
    /\ [](established => DeliveredSeqs = [i \in 1..expect_seq |-> i - 1])
    /\ [][ForRecv(C1_Frame)]_vars

\* C1 witness: in a connection that followed an earlier one, chunks 0 and 1
\* have been delivered, once each and in order.
C1_Witness ==
    /\ established /\ conn_base > 0 /\ expect_seq = 2
    /\ DeliveredSeqs = <<0, 1>>

\* C2, the case: the responder has delivered chunk seq in the initiator's
\* connection and the initiator still waits for DATA_ACK(seq).
C2_Case ==
    /\ cli_pc = "TRANSFERRING" /\ established /\ client_addr = A
    /\ expect_seq = seq + 1

\* C2, in that case: the responder's answer to the retransmitted DATA(seq) is
\* DATA_ACK(seq) with the sink and expect_seq as they were, and that answer
\* ends the initiator's wait with a match: it goes on to chunk seq + 1 (or to
\* the FIN after the last chunk).
C2_Answer ==
    LET r == Handler(SrvState, A, CurPkt(CliState))
        c == OnResponse(CliState, r.out[1].pkt)
    IN  /\ r.out = << [to |-> A, pkt |-> pack_msg(DATA_ACK, seq, <<>>)] >>
        /\ r.sink = sink /\ r.expect_seq = expect_seq
        /\ c.seq = seq + 1 /\ c.off = off + chunk_size
        /\ IF off + chunk_size < Len(data)
           THEN c.cli_pc = "TRANSFERRING"
                /\ c.tx = << pack_msg(DATA, seq + 1, Chunk(off + chunk_size)) >>
           ELSE c.cli_pc = "CLOSING" /\ c.tx = << pack_msg(FIN, 0, <<>>) >>

\* C2: cumulative re-ack correctness.  After the responder delivered chunk k
\* and its DATA_ACK(k) was lost, the retransmitted DATA(k) is answered with
\* DATA_ACK(k), nothing is delivered again, expect_seq stays k + 1, and the
\* initiator's wait for DATA_ACK(k) takes that answer and advances.
C2_ReAck ==
    /\ [](C2_Case => C2_Answer)
    /\ [][ServerRecv(1, FALSE) /\ C2_Case /\ c2s[1] = CurPkt(CliState)
            => /\ s2c' = Send(s2c, << pack_msg(DATA_ACK, seq, <<>>) >>)
               /\ sink' = sink /\ expect_seq' = expect_seq]_vars
    /\ [][ClientRecv(1, FALSE) /\ cli_pc = "TRANSFERRING"
            /\ s2c[1] = pack_msg(DATA_ACK, seq, <<>>)
            => seq' = seq + 1 /\ cli_pc' \in {"TRANSFERRING", "CLOSING"}]_vars

\* C2 witness: the only datagram lost was one towards the initiator, which
\* nevertheless went on to chunk 1 while the sink holds chunk 0 once: the
\* lost datagram was DATA_ACK(0) (a lost SYN_ACK ends the handshake) and the
\* initiator advanced on the re-acknowledgement.
C2_Witness ==
    /\ drops = [c2s |-> 0, s2c |-> 1]
    /\ cli_pc = "TRANSFERRING" /\ seq = 1
    /\ expect_seq = 1 /\ Len(sink) = 1

SrvUnchanged ==
    /\ client_addr' = client_addr /\ established' = established
    /\ expect_seq' = expect_seq /\ sink' = sink

C3_Frame(a, pkt) ==
    client_addr \notin {NoAddr, a} => out' = <<>> /\ SrvUnchanged

\* C3: exclusivity.  While a peer is bound, in either phase, a datagram of
\* any kind from another address gets no reply, changes neither peer, phase
\* nor expect_seq, and delivers nothing.
C3_Exclusive == [][ForRecv(C3_Frame)]_vars

\* C3 witness: "B" is bound and has sent chunk 0; the last datagram was a SYN
\* from "C", and nothing was sent in reply.
C3_Witness ==
    /\ client_addr = "B" /\ established /\ expect_seq = 1
    /\ srv_rx = [from |-> "C", tp |-> SYN]
    /\ out = <<>>

C4_Fin(a, pkt) ==
    established /\ a = client_addr /\ unpack_msg(pkt).tp = FIN
    => /\ out' = << [to |-> a, pkt |-> pack_msg(FIN_ACK, 0, <<>>)] >>
       /\ ~established' /\ client_addr' = NoAddr /\ expect_seq' = 0
       /\ sink' = sink

C4_Syn(a, pkt) ==
    client_addr = NoAddr /\ unpack_msg(pkt).tp = SYN
    => /\ out' = << [to |-> a, pkt |-> pack_msg(SYN_ACK, 0, <<>>)] >>
       /\ client_addr' = a /\ ~established' /\ expect_seq' = 0

\* C4: teardown reset.  A FIN from the bound peer in phase ESTABLISHED is
\* answered with FIN_ACK(0) and leaves the responder LISTENING, unbound, with
\* expect_seq 0 whatever it was; an unbound responder answers a SYN from any
\* address with SYN_ACK(0) and binds it; establishment sets expect_seq to 0,
\* and the first chunk a connection delivers has sequence 0.
C4_TeardownReset ==
    /\ [][ForRecv(C4_Fin)]_vars
    /\ [][ForRecv(C4_Syn)]_vars
    /\ [][~established /\ established' => expect_seq' = 0 /\ Delivered' = <<>>]_vars
    /\ [](~established => expect_seq = 0)
    /\ [][established /\ Delivered = <<>> /\ sink' # sink
            => Len(sink') = Len(sink) + 1 /\ sink'[Len(sink')].seq = 0]_vars

\* C4 witness: a connection that had delivered chunks 0 and 1 (expect_seq 2)
\* was torn down; the next one, with another host, is established and its
\* first delivered chunk has sequence 0.
C4_Witness ==
    /\ conn_base = 2 /\ sink[1].seq = 0 /\ sink[2].seq = 1
    /\ established /\ client_addr = "C" /\ expect_seq = 1
    /\ Len(sink) = 3 /\ sink[3].seq = 0

\* The initiator's run is over.
Ended == cli_pc \in {"CLOSED", "FAILED"}

\* No peer is bound and a SYN from any other host would be answered with
\* SYN_ACK(0).
Ready ==
    /\ client_addr = NoAddr
    /\ \A b \in Hosts :
          Handler(SrvState, b, pack_msg(SYN, 0, <<>>)).out
            = << [to |-> b, pkt |-> pack_msg(SYN_ACK, 0, <<>>)] >>

\* C5 as claimed: once the initiator's run has ended, however it ended, and
\* none of its frames is still on its way (the responder's state then changes
\* no more without a new peer), the responder has no peer bound and answers
\* a new peer's SYN with SYN_ACK.
C5_AlwaysReady == Ended /\ c2s = <<>> => Ready

\* C5 as amended: over a transport that loses but neither duplicates nor
\* reorders, after a run that ended CLOSED the responder is ready; after any
\* run that has ended and whose frames are gone, it is ready exactly when no
\* frame of the run reached it or the run's FIN did, and is still bound to
\* the initiator otherwise.
C5_ReadyIffTornDown ==
    /\ cli_pc = "CLOSED" => Ready /\ ~established /\ expect_seq = 0
    /\ Ended /\ c2s = <<>> =>
          IF srv_rx.from = NoAddr \/ srv_rx.tp = FIN THEN Ready ELSE client_addr = A

\* C5 witness: the run ended CLOSED with every chunk delivered and the
\* responder is unbound and ready for a new peer.
C5_Witness ==
    /\ cli_pc = "CLOSED" /\ Ready /\ srv_rx = [from |-> A, tp |-> FIN]
    /\ [i \in 1..Len(sink) |-> sink[i].seq] = <<0, 1, 2>>

\* The payloads in the sink, concatenated.
RECURSIVE Concat(_)
Concat(ss) == IF ss = <<>> THEN <<>> ELSE Head(ss).pl \o Concat(Tail(ss))

\* C6 as claimed: in a run against a fresh responder over a transport that
\* keeps the order, never duplicates and drops fewer than RETRIES datagrams
\* in all, with timeouts only when a datagram was lost, the initiator ends
\* CLOSED with the whole message in the sink.
C6_RecoversFromLoss ==
    Ended /\ Drops < RETRIES => cli_pc = "CLOSED" /\ Concat(sink) = data

\* C7: stop-and-wait.  The DATA sequences the initiator transmits start at 0
\* and only ever go up by one, and they go up only on the receipt of a
\* DATA_ACK whose sequence is exactly the one transmitted last; so every
\* chunk transmitted, except possibly the last, has been acknowledged: at
\* most one chunk is outstanding.
C7_StopAndWait ==
    /\ [](last_data # None => \A d \in 0..(last_data - 1) : d \in acked)
    /\ [](cli_pc = "TRANSFERRING" => last_data = seq)
    /\ [][last_data' # last_data =>
            IF last_data = None THEN last_data' = 0
            ELSE /\ last_data' = last_data + 1
                 /\ cli_rx' = [ev |-> "recv", tp |-> DATA_ACK]
                 /\ \E i \in 1..Len(s2c) : unpack_msg(s2c[i]).seq = last_data]_vars

\* C7 witness: chunk 2 has been transmitted twice and is still outstanding;
\* chunks 0 and 1 are acknowledged.
C7_Witness ==
    /\ cli_pc = "TRANSFERRING" /\ last_data = 2 /\ attempt = 2
    /\ acked = {0, 1}

\* A call of send_recv_with_retry returns a match in this step.
Succeeds == Waiting /\ (cli_pc' \notin {cli_pc, "FAILED"} \/ seq' # seq)

\* The datagram resp is of an acceptable type and carries the expected
\* sequence of the current wait.
Expected(resp) ==
    LET m == unpack_msg(resp)
    IN  CASE cli_pc = "HANDSHAKING"  -> m.tp = SYN_ACK
          [] cli_pc = "TRANSFERRING" -> m.tp = DATA_ACK /\ m.seq = seq
          [] cli_pc = "CLOSING"      -> m.tp = FIN_ACK
          [] OTHER -> FALSE

\* C8: bounded retry.  In every call the frame is transmitted at least once
\* and at most RETRIES times; a call succeeds only on receiving a datagram of
\* an acceptable type with the expected sequence; it fails only after exactly
\* RETRIES transmissions; and within a call the count of attempts only goes
\* up, by one per transmission.
C8_BoundedRetry ==
    /\ [](Waiting => ntx = attempt /\ 1 <= ntx /\ ntx <= RETRIES)
    /\ [](cli_pc = "FAILED" => ntx = RETRIES)
    /\ [][Succeeds => /\ cli_rx'.ev = "recv"
                      /\ \E i \in 1..Len(s2c) :
                            Expected(s2c[i]) /\ s2c' \in {s2c, Remove(s2c, i)}]_vars
    /\ [][Waiting /\ cli_pc' = "FAILED" => ntx = RETRIES /\ c2s' = c2s]_vars
    /\ [][Waiting /\ cli_pc' = cli_pc /\ seq' = seq /\ attempt' # attempt
            => attempt' = attempt + 1 /\ ntx' = ntx + 1]_vars

\* C8 witness: a call has failed after RETRIES transmissions, the last
\* attempt ended by a DATA_ACK that did not match.
C8_Witness ==
    /\ cli_pc = "FAILED" /\ ntx = RETRIES /\ attempt = RETRIES
    /\ cli_rx = [ev |-> "recv", tp |-> DATA_ACK]

\* The responder's part of C9: a datagram shorter than a header gets no
\* reply and changes nothing.
C9_Responder ==
    UNCHANGED <<cli, c2s, dups, drops>> =>
        \A a \in Addr, pkt \in Malformed :
            ServerRecvNoise(a, pkt) => out' = <<>> /\ s2c' = s2c /\ SrvUnchanged

\* C9 as claimed: a datagram shorter than a header changes nothing at either
\* role and nothing is sent: the initiator's phase, chunk index and retry
\* counter stay, and it transmits nothing.
C9_MalformedNoEffect ==
    [][/\ C9_Responder
       /\ UNCHANGED <<srv, s2c, dups, drops, acked>> =>
             \A pkt \in Malformed :
                 ClientRecvNoise(pkt) =>
                     cli_pc' = cli_pc /\ seq' = seq /\ attempt' = attempt /\ c2s' = c2s]_vars

\* What the end of an attempt without a match does: the frame is sent again
\* and the attempt counted, or, after the last attempt, the run has FAILED.
AttemptSpent ==
    /\ seq' = seq /\ off' = off
    /\ IF attempt < RETRIES
       THEN /\ cli_pc' = cli_pc /\ attempt' = attempt + 1
            /\ c2s' = Send(c2s, << CurPkt(CliState) >>)
       ELSE /\ cli_pc' = "FAILED" /\ attempt' = attempt
            /\ c2s' = c2s

\* C9 as amended: at the responder a datagram shorter than a header gets no
\* reply and changes nothing; at the initiator it ends the current attempt
\* as a response that does not match: phase and chunk index stay while
\* attempts are left, but the attempt is spent and the frame retransmitted,
\* and after the last attempt the run has FAILED.
C9_MalformedSpendsAttempt ==
    [][/\ C9_Responder
       /\ UNCHANGED <<srv, s2c, dups, drops, acked>> =>
             \A pkt \in Malformed : ClientRecvNoise(pkt) => AttemptSpent]_vars

\* C9 witness: the initiator's first wait for DATA_ACK(1) ended with a
\* malformed datagram and DATA(1) went out a second time; the responder's
\* last datagram was malformed too and it sent nothing.
C9_Witness ==
    /\ cli_pc = "TRANSFERRING" /\ seq = 1 /\ attempt = 2
    /\ cli_rx = [ev |-> "recv", tp |-> None]
    /\ established /\ srv_rx.tp = None /\ out = <<>>

\* The step is the receipt by the initiator of a well-formed datagram that is
\* not the one it waits for.
Unexpected(i, keep) ==
    /\ ClientRecv(i, keep)
    /\ unpack_msg(s2c[i]).tp # None
    /\ ~Expected(s2c[i])

\* C10 as claimed: an unexpected frame spends no attempt and causes no
\* retransmission; the initiator keeps waiting.
C10_UnexpectedIgnored ==
    [][\A i \in 1..Len(s2c), keep \in BOOLEAN :
          Unexpected(i, keep) =>
              cli_pc' = cli_pc /\ seq' = seq /\ attempt' = attempt /\ c2s' = c2s]_vars

\* C10 as amended: an unexpected frame ends the current attempt: the attempt
\* is spent and, if one is left, the frame is retransmitted at once; if it
\* was the last, the run has FAILED.  The budget is never reset.
C10_UnexpectedSpendsAttempt ==
    [][\A i \in 1..Len(s2c), keep \in BOOLEAN :
          Unexpected(i, keep) => AttemptSpent]_vars

\* C10 witness: the initiator, waiting for DATA_ACK(1), received a DATA_ACK
\* that was not it (a match would have taken it to chunk 2) and is in its
\* second attempt.
C10_Witness ==
    /\ cli_pc = "TRANSFERRING" /\ seq = 1 /\ attempt = 2 /\ ntx = 2
    /\ cli_rx = [ev |-> "recv", tp |-> DATA_ACK]

\* ceil(L / C) for the message and the chunk size of the run.
NChunks == (Len(data) + chunk_size - 1) \div chunk_size

\* The sequence the next new DATA frame carries.
NextData == IF last_data = None THEN 0 ELSE last_data + 1

\* C11, one step that transmits: a DATA frame in it is the one of the next
\* chunk in order, carrying that chunk's bytes, chunk_size of them unless it
\* is the last chunk; a FIN in it follows the receipt of the DATA_ACK of the
\* last chunk or, the message being empty, of the SYN_ACK.
C11_Step ==
    LET d == DataSent(cli_tx')
        k == NextData
        pl == SubSeq(data, k * chunk_size + 1, Min((k + 1) * chunk_size, Len(data)))
    IN  /\ Len(d) <= 1
        /\ d # <<>> =>
              /\ k < NChunks
              /\ d[1] = pack_msg(DATA, k, pl)
              /\ Len(pl) = chunk_size \/ (k = NChunks - 1 /\ Len(pl) \in 1..chunk_size)
        /\ pack_msg(FIN, 0, <<>>) \in {cli_tx'[i] : i \in 1..Len(cli_tx')} =>
              IF Len(data) = 0
              THEN /\ cli_rx' = [ev |-> "recv", tp |-> SYN_ACK]
                   /\ cli_tx' = << pack_msg(ACK, 0, <<>>), pack_msg(FIN, 0, <<>>) >>
              ELSE /\ cli_rx' = [ev |-> "recv", tp |-> DATA_ACK]
                   /\ last_data = NChunks - 1 /\ last_data \in acked'
                   /\ cli_tx' = << pack_msg(FIN, 0, <<>>) >>

\* C11: chunking.  Over a transport that delivers every datagram once and in
\* order and with no timeout, a message of L bytes sent in chunks of C bytes
\* goes out as ceil(L / C) DATA frames, each once, with sequences 0, 1, ... in
\* order, every chunk of C bytes except possibly the last; the payloads in
\* the sink, concatenated, are the message; and the FIN goes out only after
\* the DATA_ACK of the last chunk (right after the handshake when L = 0).
C11_Chunking ==
    /\ [][nframes' # nframes => C11_Step]_vars
    /\ [](cli_pc = "TRANSFERRING" => last_data = seq /\ nframes = seq + 3)
    /\ [](cli_pc \in {"CLOSING", "CLOSED"} =>
            /\ nframes = NChunks + 3
            /\ NextData = NChunks
            /\ acked = 0..(NChunks - 1)
            /\ [i \in 1..Len(sink) |-> sink[i].seq] = [i \in 1..NChunks |-> i - 1]
            /\ Concat(sink) = data)

\* C11 witness: five bytes in chunks of two went out as three DATA frames,
\* the sink holds chunks of 2, 2 and 1 bytes and the run is CLOSED.
C11_Witness ==
    /\ cli_pc = "CLOSED" /\ Len(data) = 5 /\ chunk_size = 2
    /\ nframes = 6 /\ last_data = 2
    /\ [i \in 1..Len(sink) |-> Len(sink[i].pl)] = <<2, 2, 1>>

\* The value of the bytes b, most significant first.
RECURSIVE BigEndian(_)
BigEndian(b) == IF b = <<>> THEN 0 ELSE BigEndian(SubSeq(b, 1, Len(b) - 1)) * 256 + b[Len(b)]

\* C12: codec round trip.  What pack_msg returns is a header of 7 bytes, the
\* type, the sequence in 4 bytes and the payload's length in 2, the most
\* significant byte first, followed by the payload; and unpack_msg gives back
\* from it the type, the sequence and the payload pack_msg was given.
C12_RoundTrip ==
    LET a == codec.arg
        b == codec.buf
    IN  /\ codec.pc \in {"packed", "roundtrip"} =>
              /\ Len(b) = 7 + Len(a.pl)
              /\ \A i \in 1..7 : b[i] \in 0..255
              /\ b[1] = a.tp
              /\ BigEndian(SubSeq(b, 2, 5)) = a.seq
              /\ BigEndian(SubSeq(b, 6, 7)) = Len(a.pl)
              /\ SubSeq(b, 8, Len(b)) = a.pl
        /\ codec.pc = "roundtrip" => codec.dec = a

\* C12 witness: a DATA frame with a sequence of four bytes and a payload of 256
\* bytes has been encoded and decoded back.
C12_Witness ==
    /\ codec.pc = "roundtrip"
    /\ codec.arg.tp = DATA /\ codec.arg.seq = 2147483647 /\ Len(codec.arg.pl) = 256
    /\ codec.dec = codec.arg

\* C16 as claimed: of every buffer of 7 bytes or more unpack_msg returns a
\* payload as long as the header's length field says; of every shorter
\* buffer it returns the failure value.
C16_DecodedLength ==
    codec.pc \in {"unpacked", "roundtrip"} =>
        IF Len(codec.buf) >= 7
        THEN Len(codec.dec.pl) = BigEndian(SubSeq(codec.buf, 6, 7))
        ELSE codec.dec = [tp |-> None, seq |-> None, pl |-> <<>>]

C13_Frame(a, pkt) ==
    LET m == unpack_msg(pkt)
    IN  established /\ a = client_addr /\ m.tp = DATA /\ m.seq # expect_seq
        => /\ sink' = sink /\ expect_seq' = expect_seq
           /\ established' /\ client_addr' = client_addr
           /\ out' = DataAck(a, IF expect_seq - 1 > 0 THEN expect_seq - 1 ELSE 0)

\* C13: the out-of-order rule.  In phase ESTABLISHED a DATA frame of the bound
\* peer whose sequence is not expect_seq, behind it or ahead of it, delivers
\* nothing, leaves expect_seq as it is and is answered with DATA_ACK of
\* max(expect_seq - 1, 0): with DATA_ACK(0) when expect_seq is 0, although
\* chunk 0 has not been delivered.
C13_OutOfOrder == [][ForRecv(C13_Frame)]_vars

\* C13 witness: the connection with "B" has delivered nothing, its last frame
\* was a DATA frame, and the answer to it was DATA_ACK(0).
C13_Witness ==
    /\ established /\ client_addr = "B" /\ expect_seq = 0 /\ Delivered = <<>>
    /\ srv_rx = [from |-> "B", tp |-> DATA]
    /\ out = DataAck("B", 0)

C14_Frame(a, pkt) ==
    LET m == unpack_msg(pkt)
    IN  /\ ~established =>
              IF m.tp = SYN /\ client_addr = NoAddr
              THEN /\ client_addr' = a
                   /\ out' = << [to |-> a, pkt |-> pack_msg(SYN_ACK, 0, <<>>)] >>
                   /\ ~established' /\ expect_seq' = expect_seq /\ sink' = sink
              ELSE IF m.tp = ACK /\ client_addr = a
              THEN /\ established' /\ expect_seq' = 0
                   /\ client_addr' = client_addr /\ out' = <<>> /\ sink' = sink
              ELSE out' = <<>> /\ SrvUnchanged
        /\ established /\ a = client_addr /\ m.tp \notin {DATA, FIN}
              => out' = <<>> /\ SrvUnchanged

\* C14: ignored frames.  In phase LISTENING a SYN with no peer bound binds
\* its sender and is answered with SYN_ACK(0), an ACK of the bound peer makes
\* the phase ESTABLISHED with expect_seq 0, and every other datagram (a
\* repeated SYN, a DATA or a FIN of the bound peer among them) changes
\* nothing, gets no reply and delivers nothing.  In phase ESTABLISHED a frame
\* of the bound peer that is neither DATA nor FIN changes nothing and gets no
\* reply.
C14_Ignored == [][ForRecv(C14_Frame)]_vars

\* C14 witness: "B" is bound, the phase is LISTENING, and B's FIN was the last
\* datagram: nothing was sent and "B" is still bound.
C14_Witness ==
    /\ ~established /\ client_addr = "B" /\ expect_seq = 0
    /\ srv_rx = [from |-> "B", tp |-> FIN]
    /\ out = <<>>

\* The order of the initiator's phases.
Rank(pc) ==
    CASE pc = "INIT" -> 0
      [] pc = "HANDSHAKING" -> 1
      [] pc = "TRANSFERRING" -> 2
      [] pc = "CLOSING" -> 3
      [] pc \in {"CLOSED", "FAILED"} -> 4

\* The step is one of the initiator.
InitiatorStep == <<cli_pc, attempt, seq>>' # <<cli_pc, attempt, seq>>

\* C15, one step of the initiator: what it transmits, by the phase it is in
\* after the step.
C15_Step ==
    LET syn == pack_msg(SYN, 0, <<>>)
        ack == pack_msg(ACK, 0, <<>>)
        fin == pack_msg(FIN, 0, <<>>)
        dat == pack_msg(DATA, seq', Chunk(off'))
        synack == cli_pc = "HANDSHAKING" /\ cli_rx' = [ev |-> "recv", tp |-> SYN_ACK]
    IN  /\ c2s' = Send(c2s, cli_tx')
        /\ Rank(cli_pc') >= Rank(cli_pc)
        /\ CASE cli_pc' = "HANDSHAKING" -> cli_tx' = <<syn>>
              [] cli_pc' = "TRANSFERRING" ->
                    IF cli_pc = "HANDSHAKING"
                    THEN synack /\ cli_tx' = <<ack, dat>> /\ seq' = 0
                    ELSE cli_pc = "TRANSFERRING" /\ cli_tx' = <<dat>>
              [] cli_pc' = "CLOSING" ->
                    IF cli_pc = "HANDSHAKING"
                    THEN synack /\ cli_tx' = <<ack, fin>> /\ data = <<>>
                    ELSE /\ cli_tx' = <<fin>>
                         /\ cli_pc = "TRANSFERRING" =>
                               /\ cli_rx' = [ev |-> "recv", tp |-> DATA_ACK]
                               /\ seq \in acked' /\ off + chunk_size >= Len(data)
              [] cli_pc' = "CLOSED" -> cli_tx' = <<>> /\ cli_pc = "CLOSING"
              [] cli_pc' = "FAILED" -> cli_tx' = <<>> /\ attempt = RETRIES

\* C15: the initiator's phase ordering.  It transmits SYN, 1 to RETRIES times;
\* then, in the step that receives the SYN_ACK, one ACK and with it, waiting
\* for nothing, the first DATA frame; then DATA frames; then, in the step
\* that receives the DATA_ACK of the last chunk, FIN, 1 to RETRIES times in
\* all.  A step that has used its RETRIES attempts leaves it FAILED, and from
\* then on, as when CLOSED, it transmits nothing.
C15_PhaseOrder ==
    /\ [][InitiatorStep => C15_Step]_vars
    /\ [](cli_pc \in {"HANDSHAKING", "CLOSING", "CLOSED"} => ntx \in 1..RETRIES)
    /\ [][Ended => cli' = cli /\ Len(c2s') <= Len(c2s)]_vars

\* C15 witness: chunk 0 was acknowledged, DATA(1) went out RETRIES times with
\* no match, the run has FAILED, and nothing of it is on its way.
C15_Witness ==
    /\ cli_pc = "FAILED" /\ seq = 1 /\ last_data = 1 /\ acked = {0}
    /\ ntx = RETRIES /\ cli_tx = <<>> /\ c2s = <<>>

\* C17: the initiator terminates.  Whatever it receives, frames of any kind,
\* malformed datagrams or nothing, as long as each wait ends, the run reaches
\* CLOSED or FAILED, and it never transmits more than RETRIES * (N + 2) + 1
\* frames, N being the number of chunks.
C17_Terminates ==
    /\ <>Ended
    /\ [](nframes <= RETRIES * (NChunks + 2) + 1)

\* C17 witness: a run of three chunks is CLOSED having used every attempt of
\* every step: RETRIES * 5 + 1 frames.
C17_Witness ==
    /\ cli_pc = "CLOSED" /\ NChunks = 3
    /\ nframes = RETRIES * (NChunks + 2) + 1

\* Chunk k of the message, as the sink holds it.
SinkChunk(k) ==
    [seq |-> k,
     pl |-> SubSeq(data, k * chunk_size + 1, Min((k + 1) * chunk_size, Len(data)))]

\* C18: acknowledged implies delivered.  Over a transport that loses,
\* duplicates and reorders, when the initiator is at chunk i the responder
\* has delivered chunks 0 .. i-1 to the sink, and while the initiator
\* transfers the responder's expect_seq is not behind i; once the initiator
\* is CLOSING or CLOSED the sink holds all the chunks of the message.
C18_AckedDelivered ==
    /\ cli_pc \in {"TRANSFERRING", "CLOSING", "CLOSED", "FAILED"} =>
          /\ Len(sink) >= seq
          /\ \A k \in 0..(seq - 1) : sink[k + 1] = SinkChunk(k)
    /\ cli_pc = "TRANSFERRING" =>
          /\ seq <= expect_seq
          /\ seq > 0 => established /\ client_addr = A
    /\ cli_pc \in {"CLOSING", "CLOSED"} =>
          /\ seq = NChunks
          /\ Concat(SubSeq(sink, 1, NChunks)) = data

\* C18 witness: the initiator is in its second attempt at chunk 2, which the
\* responder has already delivered (expect_seq is 3).
C18_Witness ==
    /\ cli_pc = "TRANSFERRING" /\ seq = 2 /\ attempt = 2
    /\ expect_seq = 3 /\ Len(sink) = 3

C19_Frame(a, pkt) ==
    LET m == unpack_msg(pkt)
        mine == established /\ a = client_addr
    IN  /\ expect_seq' # expect_seq =>
              \/ mine /\ m.tp = DATA /\ m.seq = expect_seq /\ expect_seq' = expect_seq + 1
              \/ mine /\ m.tp = FIN /\ expect_seq' = 0
        /\ ~established /\ established' =>
              m.tp = ACK /\ a = client_addr /\ expect_seq' = 0
        /\ mine /\ m.tp = FIN => expect_seq' = 0

\* C19: the responder's state is consistent.  ESTABLISHED implies a peer is
\* bound; LISTENING implies expect_seq is 0, and so does no peer; expect_seq
\* changes only by one up, on the expected DATA frame of the bound peer, or
\* to 0, on its FIN, and it is 0 after the ACK that completes a handshake.
C19_Consistent ==
    /\ [](established => client_addr # NoAddr)
    /\ [](~established => expect_seq = 0)
    /\ [](client_addr = NoAddr => ~established /\ expect_seq = 0)
    /\ [][ForRecv(C19_Frame)]_vars

\* C19 witness: a connection that had delivered two chunks has been closed by
\* its FIN: no peer, LISTENING, expect_seq 0.
C19_Witness ==
    /\ client_addr = NoAddr /\ ~established /\ expect_seq = 0
    /\ srv_rx.tp = FIN /\ conn_base = 0 /\ Len(sink) = 2

\* The types of the frames of a send list.
OutTypes(o) == { unpack_msg(o[i].pkt).tp : i \in 1..Len(o) }

C20_Frame(a, pkt) ==
    LET m == unpack_msg(pkt)
        binds == client_addr = NoAddr /\ m.tp = SYN
        resets == established /\ a = client_addr /\ m.tp = FIN
    IN  /\ binds => /\ out' = << [to |-> a, pkt |-> pack_msg(SYN_ACK, 0, <<>>)] >>
                    /\ client_addr' = a
        /\ SYN_ACK \in OutTypes(out') => binds
        /\ resets => /\ out' = << [to |-> a, pkt |-> pack_msg(FIN_ACK, 0, <<>>)] >>
                     /\ client_addr' = NoAddr /\ ~established'
        /\ FIN_ACK \in OutTypes(out') => resets
        /\ ~binds /\ ~resets => client_addr' = client_addr

\* C20: one control reply per connection.  The responder sends a SYN_ACK in
\* the step that binds a peer and in no other, so none while a peer is
\* bound, however many SYN frames arrive; it sends a FIN_ACK in the step in
\* which the bound peer's FIN ends an ESTABLISHED connection and unbinds the
\* peer, and in no other, so at most one per connection and none for a FIN
\* that arrives in LISTENING; and the peer changes in those two steps only.
C20_OneControlReply == [][ForRecv(C20_Frame)]_vars

\* C20 witness: "B" is bound, its SYN has arrived again, and no SYN_ACK was
\* sent for it.
C20_Witness ==
    /\ client_addr = "B" /\ ~established
    /\ srv_rx = [from |-> "B", tp |-> SYN]
    /\ out = <<>>

=============================================================================
